---- MODULE Spec2Model ----
(***************************************************************************)
(* Jobcard PDF engine (jobcards/views.py, jobcards/models.py).             *)
(*                                                                         *)
(* The template layout store (PDFTemplateElement rows), the branding       *)
(* settings (GlobalSettings rows) and one in-flight call of                *)
(* generate_pdf_buffer, stepped through its table loop, its flowing body   *)
(* blocks and NumberedCanvas.save, followed by the answer of the view that *)
(* called it.  Lengths are PDF points, rounded to integers.                *)
(***************************************************************************)
EXTENDS Integers, Sequences, FiniteSets, TLC

VARIABLES
    elements_db,      \* PDFTemplateElement table: element_name -> geometry
    settings_db,      \* GlobalSettings table: sequence of rows, in pk order
    render,           \* frame of the running generate_pdf_buffer call
    response,         \* what the calling view answered for the last request
    last_op,          \* the request/operation that produced this state
    layout_post,      \* frame of a SaveTemplateLayoutView.post run statement
                      \* by statement beside the other requests
    settings_posts,   \* frames of the SettingsView.post requests run
                      \* statement by statement, one per worker
    seeders,          \* frames of the setup_default_template_elements calls
                      \* run statement by statement, one per worker
    jobcard_db        \* Jobcard table: sequence of rows, in pk order, each
                      \* with its line items

vars ==
    <<elements_db, settings_db, render, response, last_op, layout_post,
      settings_posts, seeders, jobcard_db>>

\* the frames of the requests that run statement by statement
stepwise == <<layout_post, settings_posts, seeders, jobcard_db>>

----------------------------------------------------------------------------
(* Bounds of the model *)

\* most line items of a bound jobcard
MaxRows == 2

----------------------------------------------------------------------------
(* Program constants *)

\* A4 page height, 841.89pt rounded
PageHeight == 842
\* A4 page width, 595.28pt rounded
PageWidth == 595
\* bottom (and top) margin of the flowing region
Margin == 40
\* gap between the table and the first body block
TableGap == 20
\* signature box height sig_h
SigH == 50
\* distance from a block title to its first line
TitleStep == 15
\* distance between wrapped note lines
LineStep == 12
\* gap left after a notes block and after a signature box
BlockGap == 20
\* heights asked of check_page_break
TechBlockHeight == 120
SigBlockHeight == 80
ManagerBlockHeight == 100
AdminBlockHeight == 50
\* number of line items of the preview fixture (3 rows * 5)
DummyRows == 15

----------------------------------------------------------------------------
(* Template layout store *)

\* PDFTemplateElement.ELEMENT_CHOICES: the fixed element names
ELEMENT_CHOICES ==
    {"header_logo", "company_info", "jobcard_meta", "client_details",
     "start_stop_times", "items_table", "manager_notes", "admin_notes",
     "signatures"}

Geom(x, y, w, h, f) ==
    [pos_x |-> x, pos_y |-> y, width |-> w, height |-> h, font_size |-> f]

Default(name, x, y, w, h, f) ==
    [element_name |-> name, geom |-> Geom(x, y, w, h, f)]

\* the list `defaults` of setup_default_template_elements
defaults ==
    << Default("header_logo", 40, 40, 120, 60, 0),
       Default("company_info", 200, 40, 350, 60, 12),
       Default("jobcard_meta", 400, 110, 150, 50, 10),
       Default("client_details", 40, 110, 200, 40, 10),
       Default("start_stop_times", 300, 150, 250, 40, 10),
       Default("items_table", 40, 210, 515, 300, 10),
       Default("manager_notes", 40, 530, 515, 60, 10),
       Default("admin_notes", 40, 600, 515, 60, 10),
       Default("signatures", 40, 680, 515, 100, 10) >>

\* field defaults of the PDFTemplateElement model
ModelDefaultGeom == Geom(0, 0, 100, 50, 10)

EmptyStore == [n \in {} |-> ModelDefaultGeom]

\* PDFTemplateElement.objects.create(**d)
create(db, d) ==
    [n \in (DOMAIN db) \cup {d.element_name} |->
        IF n = d.element_name THEN d.geom ELSE db[n]]

\* `for d in defaults: PDFTemplateElement.objects.create(**d)`
RECURSIVE create_all(_, _)
create_all(db, ds) ==
    IF ds = <<>> THEN db ELSE create_all(create(db, Head(ds)), Tail(ds))

\* a faulty variant: the loop stops one short of the end of the list
setup_default_template_elements_short(db) ==
    IF DOMAIN db = {}
    THEN create_all(db, SubSeq(defaults, 1, Len(defaults) - 1))
    ELSE db

\* setup_default_template_elements(): seeds the defaults iff no row exists
setup_default_template_elements(db) ==
    IF DOMAIN db = {} THEN create_all(db, defaults) ELSE db

\* PDFTemplateElement.objects.get_or_create(element_name=name)
get_or_create(db, name) ==
    IF name \in DOMAIN db
    THEN db
    ELSE [n \in (DOMAIN db) \cup {name} |->
            IF n = name THEN ModelDefaultGeom ELSE db[n]]

\* a faulty variant: the position is saved, the size is not
upsert_position_only(db, item) ==
    LET d == get_or_create(db, item.name)
    IN  [d EXCEPT ![item.name] =
            [@ EXCEPT !.pos_x = item.x, !.pos_y = item.y]]

\* one item of the posted list: get_or_create, set the four fields, save
upsert(db, item) ==
    LET d == get_or_create(db, item.name)
    IN  [d EXCEPT ![item.name] =
            [@ EXCEPT !.pos_x = item.x, !.pos_y = item.y,
                      !.width = item.width, !.height = item.height]]

\* the try block of SaveTemplateLayoutView.post: the for loop over
\* elements_data.  An item without a name is skipped; an item one of whose
\* coordinates float() rejects raises after its get_or_create, and what
\* was saved before it stays saved.
RECURSIVE save_layout(_, _)
save_layout(db, items) ==
    IF items = <<>>
    THEN [db |-> db, status |-> "success"]
    ELSE LET item == Head(items)
         IN  IF item.name = ""
             THEN save_layout(db, Tail(items))
             ELSE IF ~item.numeric
             THEN [db |-> get_or_create(db, item.name), status |-> "error"]
             ELSE save_layout(upsert(db, item), Tail(items))

----------------------------------------------------------------------------
(* Branding settings *)

\* an image field: "none" (empty), "ok" (a readable file), "bad" (a file
\* that cannot be opened or decoded)
ImageStates == {"none", "ok", "bad"}

\* what GlobalSettings.objects.first() gives on an empty table
NoSettings == [exists |-> FALSE, company_logo |-> "none", watermark |-> "none"]

\* GlobalSettings.objects.first()
first_settings(db) == IF db = <<>> THEN NoSettings ELSE db[1]

\* GlobalSettings.save(): a new instance is dropped when a row exists
settings_save_new(db, row) == IF db # <<>> THEN db ELSE <<row>>

\* SettingsView.post: the form is bound to the first row, or to a new
\* instance when the table is empty
settings_post(db, row) ==
    IF db = <<>> THEN settings_save_new(db, row) ELSE [db EXCEPT ![1] = row]

----------------------------------------------------------------------------
(* NumberedCanvas *)

\* one drawing call: what it draws, where, the lowest y it reaches, for a
\* table part the ids of its rows, and what is drawn: the strings of a text
\* block, the image field of an image
Op(b, y) == [blk |-> b, y |-> y, ymin |-> y, rows |-> <<>>, arg |-> <<>>]

\* a drawing call with its strings or its image field
OpOf(b, y, arg) == [Op(b, y) EXCEPT !.arg = arg]

\* NumberedCanvas.__init__: the first page is open and blank
NewCanvas ==
    [saved_page_states |-> <<>>, code |-> <<>>, pageNumber |-> 1,
     fill_alpha |-> 100, state_stack |-> 0, doc |-> <<>>]

\* any drawing call: appended to the content of the page being drawn
draw(p, op) == [p EXCEPT !.code = Append(@, op)]

\* Canvas._startPage: next page number, empty content, fresh graphics state
startPage(p) ==
    [p EXCEPT !.pageNumber = @ + 1, !.code = <<>>,
              !.fill_alpha = 100, !.state_stack = 0]

\* what dict(self.__dict__) keeps of the page being closed
PageState(p) == [pageNumber |-> p.pageNumber, code |-> p.code]

\* NumberedCanvas.showPage: the page is put aside, nothing is emitted yet
showPage(p) ==
    startPage([p EXCEPT !.saved_page_states = Append(@, PageState(p))])

\* draw_page_number(page_count) on the restored page
Footer(state, page_count) == <<state.pageNumber, page_count>>

\* NumberedCanvas.save: every page put aside is restored, numbered and
\* emitted (Canvas.showPage); then Canvas.save closes a page that holds
\* content through self.showPage(), which only puts it aside, and writes
\* the file.
save(p) ==
    LET num_pages == Len(p.saved_page_states)
        emitted == [i \in 1..num_pages |->
                      [ops |-> p.saved_page_states[i].code,
                       footer |-> Footer(p.saved_page_states[i], num_pages)]]
        after_loop ==
            IF num_pages = 0
            THEN p
            ELSE startPage([p EXCEPT
                    !.pageNumber = p.saved_page_states[num_pages].pageNumber,
                    !.code = <<>>])
        closed == IF after_loop.code # <<>> THEN showPage(after_loop)
                  ELSE after_loop
    IN  [closed EXCEPT !.doc = emitted]

\* the pages opened so far with what was drawn on each
Pages(p) ==
    [i \in 1..(Len(p.saved_page_states) + 1) |->
        IF i <= Len(p.saved_page_states)
        THEN p.saved_page_states[i].code
        ELSE p.code]

----------------------------------------------------------------------------
(* draw_page_framework *)

\* y of a centred watermark (a square image scaled to 60% of the width)
WatermarkY == (PageHeight - (PageWidth * 6) \div 10) \div 2

\* draw_page_framework: the border, then the watermark taken from
\* settings_obj.company_logo inside try/except; restoreState is reached
\* only when the image was drawn
draw_page_framework(p, settings_obj) ==
    LET bordered == draw(p, Op("border", 20))
        lowered == [bordered EXCEPT !.state_stack = @ + 1, !.fill_alpha = 10]
    IN  IF settings_obj.exists /\ settings_obj.company_logo # "none"
        THEN IF settings_obj.company_logo = "bad"
             THEN lowered
             ELSE [draw(lowered, OpOf("watermark", WatermarkY,
                                      <<"company_logo">>)) EXCEPT
                      !.state_stack = @ - 1,
                      !.fill_alpha = bordered.fill_alpha]
        ELSE bordered

----------------------------------------------------------------------------
(* generate_pdf_buffer: the header blocks of page 1 *)

Statuses == {"DRAFT", "SUBMITTED", "APPROVED", "INVOICED"}

\* a faulty variant: the designer's y taken as the canvas y
get_rl_y_unflipped(web_y) == web_y

\* get_rl_y: web (top-left, y down) to ReportLab (bottom-left, y up)
get_rl_y(web_y) == PageHeight - web_y

\* a box element: its bottom edge
BoxY(el) == get_rl_y(el.pos_y) - el.height

\* a text element: its first baseline
TextY(el) == get_rl_y(el.pos_y) - el.font_size

\* LOGO: the image when a logo is set (a failure is passed over), the
\* "LOGO" placeholder only in preview mode with no logo set
draw_header_logo(p, elements, settings_obj, is_dummy) ==
    IF "header_logo" \notin DOMAIN elements
    THEN p
    ELSE LET el == elements["header_logo"]
         IN  IF settings_obj.exists /\ settings_obj.company_logo # "none"
             THEN IF settings_obj.company_logo = "ok"
                  THEN draw(p, OpOf("logo_image", BoxY(el), <<"company_logo">>))
                  ELSE p
             ELSE IF is_dummy
                  THEN draw(p, Op("logo_placeholder", BoxY(el)))
                  ELSE p

\* COMPANY INFO, JOBCARD META, START STOP TIMES: each is drawn iff its
\* element is in the snapshot
draw_text_block(p, elements, name) ==
    IF name \in DOMAIN elements
    THEN draw(p, Op(name, TextY(elements[name])))
    ELSE p

\* Jobcard.Status: the stored values and their labels
Status == <<"DRAFT", "SUBMITTED", "APPROVED", "INVOICED">>
StatusLabel ==
    [DRAFT |-> "Draft", SUBMITTED |-> "Submitted", APPROVED |-> "Approved",
     INVOICED |-> "Invoiced"]

\* Model.get_FOO_display(): the label of the stored value
get_status_display(jobcard) == StatusLabel[jobcard.status]

\* line 190: jc_stat, the status text of the header
header_status(is_dummy, jobcard) ==
    IF is_dummy THEN "APPROVED" ELSE get_status_display(jobcard)

\* JOBCARD META (lines 183-194): number, date and "Status: <jc_stat>"
draw_jobcard_meta(p, elements, is_dummy, jobcard) ==
    IF "jobcard_meta" \in DOMAIN elements
    THEN draw(p, OpOf("jobcard_meta", TextY(elements["jobcard_meta"]),
                      <<header_status(is_dummy, jobcard)>>))
    ELSE p

\* a record without a company, a record without a technician
NoCompany == [exists |-> FALSE, name |-> ""]
NoTechnician == [exists |-> FALSE, full_name |-> "", username |-> ""]

\* User.get_full_name(): first and last name joined by a space and stripped,
\* the empty string when both are empty
get_full_name(user) == user.full_name

\* lines 202-203: c_name; `jobcard.company.name` on a record without a
\* company raises AttributeError
client_line(is_dummy, jobcard) ==
    LET c_name == IF is_dummy THEN "Acme Corp" ELSE jobcard.client_name
    IN  IF c_name = "" /\ ~is_dummy
        THEN IF jobcard.company.exists
             THEN [text |-> jobcard.company.name, exc |-> ""]
             ELSE [text |-> "", exc |-> "AttributeError"]
        ELSE [text |-> c_name, exc |-> ""]

\* line 207: tech_name
technician_line(is_dummy, jobcard) ==
    IF is_dummy THEN "John Doe"
    ELSE IF jobcard.technician.exists
         THEN get_full_name(jobcard.technician)
         ELSE "N/A"

\* CLIENT DETAILS (lines 197-208): the client line and the technician line
\* 12 below it; nothing of the block is drawn when c_name raises
draw_client_details(p, elements, is_dummy, jobcard) ==
    IF "client_details" \notin DOMAIN elements
    THEN [p |-> p, exc |-> ""]
    ELSE LET c == client_line(is_dummy, jobcard)
             y == TextY(elements["client_details"])
         IN  IF c.exc # ""
             THEN [p |-> p, exc |-> c.exc]
             ELSE [p |-> draw(p, [OpOf("client_details", y,
                                       <<c.text, technician_line(is_dummy, jobcard)>>)
                                  EXCEPT !.ymin = y - LineStep]),
                   exc |-> ""]

\* lines 152-220
draw_header(p, elements, settings_obj, is_dummy, jobcard) ==
    LET p1 == draw_header_logo(p, elements, settings_obj, is_dummy)
        p2 == draw_text_block(p1, elements, "company_info")
        p3 == draw_jobcard_meta(p2, elements, is_dummy, jobcard)
        c4 == draw_client_details(p3, elements, is_dummy, jobcard)
    IN  IF c4.exc # ""
        THEN c4
        ELSE [p |-> draw_text_block(c4.p, elements, "start_stop_times"),
              exc |-> ""]

----------------------------------------------------------------------------
(* generate_pdf_buffer: the items table *)

\* row heights ReportLab gives a one-line row at the default leading of 12:
\* 3 + 12 + 3, and 3 + 12 + 6 for the header row (BOTTOMPADDING 6)
RowHeight == 18
HeaderRowHeight == 21

\* `data`: the header row (id 0), then one row per line item in insertion
\* order; a bound item is given by the height of its row
table_data(is_dummy, jobcard) ==
    LET items == IF is_dummy
                 THEN [i \in 1..DummyRows |-> RowHeight]
                 ELSE jobcard.items
    IN  <<[id |-> 0, h |-> HeaderRowHeight]>> \o
        [i \in 1..Len(items) |-> [id |-> i, h |-> items[i]]]

\* Table.wrapOn: the height of the table
RECURSIVE wrap_height(_)
wrap_height(table) ==
    IF table = <<>> THEN 0 ELSE Head(table).h + wrap_height(Tail(table))

\* Table._getFirstPossibleSplitRowPosition: how many leading rows fit
RECURSIVE split_position(_, _)
split_position(table, availHeight) ==
    IF table = <<>> \/ Head(table).h > availHeight
    THEN 0
    ELSE 1 + split_position(Tail(table), availHeight - Head(table).h)

\* a faulty variant: the second part starts at the last row of the first
split_repeating_row(table, availHeight) ==
    LET n == split_position(table, availHeight)
    IN  IF n = 0 THEN <<>>
        ELSE IF n = Len(table) THEN <<table>>
        ELSE <<SubSeq(table, 1, n), SubSeq(table, n, Len(table))>>

\* Table.split(availWidth, availHeight): [] when not even the first row
\* fits, [self] when every row fits, else the fitting rows and the rest
split(table, availHeight) ==
    LET n == split_position(table, availHeight)
    IN  IF n = 0 THEN <<>>
        ELSE IF n = Len(table) THEN <<table>>
        ELSE <<SubSeq(table, 1, n), SubSeq(table, n + 1, Len(table))>>

RowIds(table) == [i \in 1..Len(table) |-> table[i].id]

\* table.drawOn(p, el.pos_x, y)
draw_table(p, table, y) ==
    draw(p, [Op("items_table", y) EXCEPT !.rows = RowIds(table)])

----------------------------------------------------------------------------
(* generate_pdf_buffer: the frame of a call *)

NoJobcard ==
    [status |-> "DRAFT", items |-> <<>>,
     tech_notes |-> 0, manager_notes |-> 0, admin_notes |-> 0,
     tech_signature |-> "none", client_signature |-> "none",
     manager_signature |-> "none",
     client_name |-> "", company |-> NoCompany, technician |-> NoTechnician]

NoBuffer == [written |-> FALSE, pages |-> <<>>]

IdleFrame ==
    [pc |-> "idle", view |-> "", is_dummy |-> FALSE, jobcard |-> NoJobcard,
     elements |-> EmptyStore, settings_obj |-> NoSettings, p |-> NewCanvas,
     table |-> <<>>, table_start_y |-> 0, avail_height |-> 0,
     current_y_position |-> 0, y_offset |-> 0, status |-> "",
     exc |-> "", drawn |-> <<>>, buffer |-> NoBuffer]

\* the number of lines simpleSplit wraps a notes text into; a bound
\* record's notes are given by that number
note_lines(is_dummy, notes) == IF is_dummy THEN 1 ELSE notes

\* line 308: the status that selects the conditional sections
section_status(is_dummy, jobcard) ==
    IF is_dummy THEN "INVOICED" ELSE jobcard.status

\* a faulty variant: the manager block only while the record waits for invoicing
manager_included_approved_only(status) == status = "APPROVED"

\* line 355
manager_included(status) == status \in {"APPROVED", "INVOICED"}

\* line 385
admin_included(status) == status = "INVOICED"

\* lines 134-257: seed and read the layout, read the settings, open the
\* canvas, draw the framework of page 1 and the header blocks, build the
\* table
generate_start(db, settings, view, is_dummy, jobcard) ==
    LET elements == db
        settings_obj == first_settings(settings)
        p0 == draw_page_framework(NewCanvas, settings_obj)
        header == draw_header(p0, elements, settings_obj, is_dummy, jobcard)
        p1 == header.p
        has_table == "items_table" \in DOMAIN elements
        table_start_y == IF has_table
                         THEN get_rl_y(elements["items_table"].pos_y)
                         ELSE 0
    IN  [IdleFrame EXCEPT
            !.pc = IF header.exc # "" THEN "raised"
                   ELSE IF has_table THEN "table" ELSE "tech_notes",
            !.exc = header.exc,
            !.view = view, !.is_dummy = is_dummy, !.jobcard = jobcard,
            !.elements = elements, !.settings_obj = settings_obj,
            !.p = p1,
            !.table = IF has_table THEN table_data(is_dummy, jobcard) ELSE <<>>,
            !.table_start_y = table_start_y,
            !.avail_height = IF has_table THEN table_start_y - Margin ELSE 0,
            !.current_y_position = 0,
            !.y_offset = 0 - TableGap,
            !.status = section_status(is_dummy, jobcard)]

\* the table is drawn whole at table_start_y - h and the loop ends
\* (lines 265-267 and 274-276), followed by line 299
table_finish(f, h) ==
    [f EXCEPT !.p = draw_table(f.p, f.table, f.table_start_y - h),
              !.current_y_position = f.table_start_y - h,
              !.table = <<>>,
              !.y_offset = (f.table_start_y - h) - TableGap,
              !.pc = "tech_notes"]

\* one pass of `while table:` (lines 259-289)
table_loop(f) ==
    LET h == wrap_height(f.table)
        split_tables == split(f.table, f.avail_height)
    IN  IF h <= f.avail_height
        THEN table_finish(f, h)
        ELSE IF Len(split_tables) = 1
        THEN table_finish(f, h)
        ELSE IF Len(split_tables) = 0
        THEN [f EXCEPT !.pc = "raised", !.exc = "IndexError"]
        ELSE LET table_part == split_tables[1]
                 h_part == wrap_height(table_part)
                 drawn == draw_table(f.p, table_part, f.table_start_y - h_part)
             IN  [f EXCEPT
                    !.p = draw_page_framework(showPage(drawn), f.settings_obj),
                    !.table = split_tables[2],
                    !.table_start_y = PageHeight - Margin,
                    !.avail_height = (PageHeight - Margin) - Margin]

----------------------------------------------------------------------------
(* generate_pdf_buffer: the flowing body blocks *)

\* a faulty variant: the page is opened and the cursor stays where it was
check_page_break_keeps_cursor(required_height, current_y, p, settings_obj) ==
    IF current_y - required_height < Margin
    THEN [p |-> draw_page_framework(showPage(p), settings_obj),
          y |-> current_y]
    ELSE [p |-> p, y |-> current_y]

\* a faulty variant: the cursor restarts under the watermark when one is
\* drawn
check_page_break_under_watermark(required_height, current_y, p, settings_obj) ==
    IF current_y - required_height < Margin
    THEN [p |-> draw_page_framework(showPage(p), settings_obj),
          y |-> IF settings_obj.exists /\ settings_obj.company_logo = "ok"
                THEN WatermarkY
                ELSE PageHeight - Margin]
    ELSE [p |-> p, y |-> current_y]

\* a faulty variant: the new page is opened without its framework
check_page_break_bare(required_height, current_y, p, settings_obj) ==
    IF current_y - required_height < Margin
    THEN [p |-> showPage(p), y |-> PageHeight - Margin]
    ELSE [p |-> p, y |-> current_y]

\* check_page_break(required_height, current_y, p)
check_page_break(required_height, current_y, p, settings_obj) ==
    IF current_y - required_height < Margin
    THEN [p |-> draw_page_framework(showPage(p), settings_obj),
          y |-> PageHeight - Margin]
    ELSE [p |-> p, y |-> current_y]

\* a title at y, then the wrapped lines 15 below it and 12 apart
draw_notes(p, name, y, lines) ==
    LET titled == draw(p, Op(name, y))
    IN  IF lines = 0
        THEN titled
        ELSE draw(titled,
                  [Op(name \o "_lines", y - TitleStep) EXCEPT
                      !.ymin = y - TitleStep - LineStep * (lines - 1)])

\* `if sig: try: p.drawImage(...) except: pass`
draw_signature_image(p, name, sig, y) ==
    IF sig = "ok" THEN draw(p, Op(name, y + 5)) ELSE p

\* a notes block: check_page_break, title, lines, gap (lines 318-332,
\* 356-372, 386-398)
notes_block(f, name, required_height, lines, next_pc) ==
    LET cb == check_page_break(required_height, f.y_offset, f.p, f.settings_obj)
    IN  [f EXCEPT !.p = draw_notes(cb.p, name, cb.y, lines),
                  !.y_offset = cb.y - TitleStep - LineStep * lines,
                  !.pc = next_pc]

\* where the render goes after the technician/client signatures
after_signatures(status) ==
    IF manager_included(status) THEN "manager_notes"
    ELSE IF admin_included(status) THEN "admin_notes"
    ELSE "save"

\* where the render goes after the manager block
after_manager(status) ==
    IF admin_included(status) THEN "admin_notes" ELSE "save"

\* lines 318-332
tech_notes_block(f) ==
    notes_block(f, "tech_notes", TechBlockHeight,
                note_lines(f.is_dummy, f.jobcard.tech_notes), "signatures")

\* lines 332-352: gap, check_page_break, the two name lines, the two
\* boxes 50 below, the images, gap
signatures_block(f) ==
    LET cb == check_page_break(SigBlockHeight, f.y_offset - BlockGap, f.p,
                               f.settings_obj)
        tech_sig == IF f.is_dummy THEN "none" ELSE f.jobcard.tech_signature
        client_sig == IF f.is_dummy THEN "none" ELSE f.jobcard.client_signature
        named == draw(cb.p, Op("tech_client_sign", cb.y))
        boxed == draw(named, Op("tech_client_boxes", cb.y - SigH))
        p1 == draw_signature_image(boxed, "tech_signature_image", tech_sig,
                                   cb.y - SigH)
        p2 == draw_signature_image(p1, "client_signature_image", client_sig,
                                   cb.y - SigH)
    IN  [f EXCEPT !.p = p2,
                  !.y_offset = cb.y - SigH - BlockGap,
                  !.pc = after_signatures(f.status)]

\* lines 356-372
manager_notes_block(f) ==
    notes_block(f, "manager_notes", ManagerBlockHeight,
                note_lines(f.is_dummy, f.jobcard.manager_notes), "manager_sign")

\* lines 372-382
manager_sign_block(f) ==
    LET cb == check_page_break(SigBlockHeight, f.y_offset - BlockGap, f.p,
                               f.settings_obj)
        manager_sig == IF f.is_dummy THEN "none"
                       ELSE f.jobcard.manager_signature
        named == draw(cb.p, Op("manager_sign", cb.y))
        boxed == draw(named, Op("manager_box", cb.y - SigH))
        p1 == draw_signature_image(boxed, "manager_signature_image",
                                   manager_sig, cb.y - SigH)
    IN  [f EXCEPT !.p = p1,
                  !.y_offset = cb.y - SigH - BlockGap,
                  !.pc = after_manager(f.status)]

\* lines 386-398
admin_notes_block(f) ==
    notes_block(f, "admin_notes", AdminBlockHeight,
                note_lines(f.is_dummy, f.jobcard.admin_notes), "save")

\* lines 400-402: p.save(), buffer.seek(0), return buffer
save_and_return(f) ==
    LET saved == save(f.p)
    IN  [f EXCEPT !.drawn = Pages(f.p),
                  !.p = saved,
                  !.buffer = [written |-> TRUE, pages |-> saved.doc],
                  !.pc = "returned"]

----------------------------------------------------------------------------
(* generate_pdf_buffer as a whole *)

\* the statement the frame is at
step(f) ==
    CASE f.pc = "table"         -> table_loop(f)
      [] f.pc = "tech_notes"    -> tech_notes_block(f)
      [] f.pc = "signatures"    -> signatures_block(f)
      [] f.pc = "manager_notes" -> manager_notes_block(f)
      [] f.pc = "manager_sign"  -> manager_sign_block(f)
      [] f.pc = "admin_notes"   -> admin_notes_block(f)
      [] f.pc = "save"          -> save_and_return(f)

\* from a frame to the end of the call: "returned" or "raised"
RECURSIVE run(_)
run(f) == IF f.pc \in {"returned", "raised"} THEN f ELSE run(step(f))

\* generate_pdf_buffer(jobcard, is_dummy) against a store and settings
generate_pdf_buffer(db, settings, is_dummy, jobcard) ==
    run(generate_start(setup_default_template_elements(db), settings,
                       "", is_dummy, jobcard))

----------------------------------------------------------------------------
(* The views that call generate_pdf_buffer *)

NoResponse ==
    [view |-> "", status |-> 0, content_type |-> "", document |-> NoBuffer,
     attachments |-> <<>>, message |-> ""]

\* a faulty variant: no try/except, whatever the buffer holds is sent as the PDF
pdf_response_unguarded(f) ==
    [view |-> f.view, status |-> 200, content_type |-> "application/pdf",
     document |-> f.buffer, attachments |-> <<>>, message |-> ""]

\* JobcardPDFView.get and PreviewPDFTemplateView.get: the try/except around
\* the call, then the response built from the buffer
pdf_response(f) ==
    IF f.pc = "raised"
    THEN [view |-> f.view, status |-> 500, content_type |-> "text/html",
          document |-> NoBuffer, attachments |-> <<>>,
          message |-> "Error generating PDF"]
    ELSE [view |-> f.view, status |-> 200,
          content_type |-> "application/pdf",
          document |-> f.buffer, attachments |-> <<>>, message |-> ""]

\* JobcardCreateView.form_valid and JobcardUpdateView.form_valid with
\* action == 'submit': the try/except around generate, the EmailMessage
\* built from self.object.company (AttributeError on a record without a
\* company), attach and send, then the redirect
submit_response(f) ==
    IF f.pc = "raised" \/ ~f.jobcard.company.exists
    THEN [view |-> f.view, status |-> 302, content_type |-> "",
          document |-> NoBuffer, attachments |-> <<>>,
          message |-> "Jobcard submitted but email failed"]
    ELSE [view |-> f.view, status |-> 302, content_type |-> "",
          document |-> NoBuffer, attachments |-> <<f.buffer>>,
          message |-> "Jobcard submitted and emailed!"]

PdfViews == {"JobcardPDFView", "PreviewPDFTemplateView"}
SubmitViews == {"JobcardCreateView", "JobcardUpdateView"}

----------------------------------------------------------------------------
(* Inputs *)

\* wrapped lines of a long notes text
LongNote == 60

\* heights of a line item's row: a cell of 25 lines, a cell taller than a
\* page
ItemHeights == {300, 900}

Tables == UNION {[1..n -> ItemHeights] : n \in 0..MaxRows}

\* <<tech_notes, manager_notes, admin_notes>>
NoteShapes == {<<0, 0, 0>>, <<LongNote, 0, 0>>, <<0, LongNote, 0>>}

\* <<tech_signature, client_signature, manager_signature>>
SigShapes ==
    {<<"none", "none", "none">>, <<"ok", "ok", "ok">>, <<"bad", "ok", "ok">>,
     <<"ok", "bad", "ok">>, <<"ok", "ok", "bad">>}

\* a technician with a display name
JohnDoe == [exists |-> TRUE, full_name |-> "John Doe", username |-> "jdoe"]

\* a bound record holding the values of the preview fixture
FixtureJobcard ==
    [status |-> "INVOICED", items |-> [i \in 1..DummyRows |-> RowHeight],
     tech_notes |-> 1, manager_notes |-> 1, admin_notes |-> 1,
     tech_signature |-> "none", client_signature |-> "none",
     manager_signature |-> "none",
     client_name |-> "Acme Corp", company |-> NoCompany,
     technician |-> JohnDoe]

Companies == {NoCompany, [exists |-> TRUE, name |-> "Globex Ltd"]}

\* no technician, one with a display name, one with a username only
Technicians ==
    {NoTechnician, JohnDoe,
     [exists |-> TRUE, full_name |-> "", username |-> "jdoe"]}

\* records that differ in the status, the table and the notes
BodyJobcards ==
    {[FixtureJobcard EXCEPT
        !.status = s, !.items = t,
        !.tech_notes = n[1], !.manager_notes = n[2], !.admin_notes = n[3]] :
        s \in Statuses, t \in Tables, n \in NoteShapes}

\* records that differ in the status and the signature images
SignedJobcards ==
    {[FixtureJobcard EXCEPT
        !.status = s, !.items = <<RowHeight>>,
        !.tech_signature = g[1], !.client_signature = g[2],
        !.manager_signature = g[3]] :
        s \in Statuses, g \in SigShapes}

\* records that differ in the client name, the company and the technician
HeaderJobcards ==
    {[FixtureJobcard EXCEPT
        !.status = "SUBMITTED", !.items = <<RowHeight>>,
        !.client_name = c, !.company = k, !.technician = t] :
        c \in {"", "Acme Corp"}, k \in Companies, t \in Technicians}

Jobcards ==
    BodyJobcards \cup SignedJobcards \cup HeaderJobcards \cup {FixtureJobcard}

\* the records the technicians submit
SubmitJobcards == SignedJobcards \cup HeaderJobcards

LayoutItem(name, x, y, w, h) ==
    [name |-> name, x |-> x, y |-> y, width |-> w, height |-> h,
     numeric |-> TRUE]

\* what the designer posts: the items table dragged near the bottom of the
\* page, the logo box and the client details dragged down, and a block
\* under a name outside the fixed set, at two places
LayoutItems ==
    {LayoutItem("items_table", 40, 790, 515, 300),
     LayoutItem("header_logo", 40, 25, 150, 80),
     LayoutItem("client_details", 40, 125, 200, 40),
     LayoutItem("custom_block", 10, 10, 100, 50),
     LayoutItem("custom_block", 300, 650, 200, 300)}

\* most items of one posted layout
MaxPostItems == 1

LayoutPosts == UNION {[1..n -> LayoutItems] : n \in 1..MaxPostItems}

\* a posted layout whose second item has a coordinate float() rejects
FailingPosts ==
    {<<LayoutItem("header_logo", 40, 25, 150, 80),
       [LayoutItem("client_details", 40, 125, 200, 40)
           EXCEPT !.numeric = FALSE]>>}

\* <<company_logo, watermark>>
BrandingShapes ==
    {<<"none", "none">>, <<"ok", "none">>, <<"bad", "none">>,
     <<"none", "ok">>, <<"ok", "ok">>}

SettingsRows ==
    {[exists |-> TRUE, company_logo |-> b[1], watermark |-> b[2]] :
        b \in BrandingShapes}

----------------------------------------------------------------------------
(* Actions *)

Idle == render.pc = "idle"

\* FormDesignerView.get
FormDesignerViewGet ==
    /\ Idle
    /\ elements_db' = setup_default_template_elements(elements_db)
    /\ response' = NoResponse
    /\ last_op' = "FormDesignerView.get"
    /\ UNCHANGED <<settings_db, render, stepwise>>

\* SaveTemplateLayoutView.post
SaveTemplateLayoutViewPost(posts) ==
    /\ Idle
    /\ \E items \in posts :
         LET r == save_layout(elements_db, items)
         IN  /\ elements_db' = r.db
             /\ response' = [NoResponse EXCEPT
                               !.view = "SaveTemplateLayoutView",
                               !.status = IF r.status = "success" THEN 200 ELSE 400,
                               !.message = r.status]
    /\ last_op' = "SaveTemplateLayoutView.post"
    /\ UNCHANGED <<settings_db, render, stepwise>>

\* SettingsView.post with a valid form
SettingsViewPost ==
    /\ Idle
    /\ \E row \in SettingsRows : settings_db' = settings_post(settings_db, row)
    /\ response' = NoResponse
    /\ last_op' = "SettingsView.post"
    /\ UNCHANGED <<elements_db, render, stepwise>>

\* a view enters generate_pdf_buffer: line 134 seeds the store, lines
\* 135-257 work from the snapshot
Generate(view, is_dummy, jobcard) ==
    /\ elements_db' = setup_default_template_elements(elements_db)
    /\ render' = generate_start(elements_db', settings_db, view, is_dummy, jobcard)
    /\ response' = NoResponse
    /\ last_op' = "generate_pdf_buffer"
    /\ UNCHANGED <<settings_db, stepwise>>

\* JobcardPDFView.get
JobcardPDFViewGet(jobcards) ==
    /\ Idle
    /\ \E jobcard \in jobcards : Generate("JobcardPDFView", FALSE, jobcard)

\* PreviewPDFTemplateView.get
PreviewPDFTemplateViewGet ==
    /\ Idle
    /\ Generate("PreviewPDFTemplateView", TRUE, NoJobcard)

\* form_valid of the create and update views with action == 'submit': the
\* form's clean() asked for a company or a client name, the create view
\* sets the technician to the requesting user, and the record is saved
\* with status SUBMITTED before the PDF is generated
SubmitFormValid(jobcards) ==
    /\ Idle
    /\ \E view \in SubmitViews : \E jobcard \in jobcards :
         /\ jobcard.status = "SUBMITTED"
         /\ jobcard.company.exists \/ jobcard.client_name # ""
         /\ view = "JobcardCreateView" => jobcard.technician.exists
         /\ Generate(view, FALSE, jobcard)

Step(pc, next_frame, op) ==
    /\ render.pc = pc
    /\ render' = next_frame
    /\ last_op' = op
    /\ UNCHANGED <<elements_db, settings_db, response, stepwise>>

TableLoop == Step("table", table_loop(render), "table_loop")
TechNotes == Step("tech_notes", tech_notes_block(render), "tech_notes")
Signatures == Step("signatures", signatures_block(render), "signatures")
ManagerNotes == Step("manager_notes", manager_notes_block(render), "manager_notes")
ManagerSign == Step("manager_sign", manager_sign_block(render), "manager_sign")
AdminNotes == Step("admin_notes", admin_notes_block(render), "admin_notes")
Save == Step("save", save_and_return(render), "save")

\* the view answers
PdfViewRespond ==
    /\ render.pc \in {"returned", "raised"}
    /\ render.view \in PdfViews
    /\ response' = pdf_response(render)
    /\ render' = [render EXCEPT !.pc = "responded"]
    /\ last_op' = "respond"
    /\ UNCHANGED <<elements_db, settings_db, stepwise>>

SubmitViewRespond ==
    /\ render.pc \in {"returned", "raised"}
    /\ render.view \in SubmitViews
    /\ response' = submit_response(render)
    /\ render' = [render EXCEPT !.pc = "responded"]
    /\ last_op' = "respond"
    /\ UNCHANGED <<elements_db, settings_db, stepwise>>

\* the response is sent; the frame, the canvas and the buffer are gone
RequestEnd ==
    /\ render.pc = "responded"
    /\ render' = IdleFrame
    /\ response' = NoResponse
    /\ last_op' = "request_end"
    /\ UNCHANGED <<elements_db, settings_db, stepwise>>

\* no request is running statement by statement
IdleLayoutPost ==
    [pc |-> "idle", elements_data |-> <<>>, i |-> 0, before |-> EmptyStore]
IdleSettingsPost ==
    [pc |-> "idle", instance |-> NoSettings, pk |-> 0]
IdleSeeder ==
    [pc |-> "idle", view |-> "", i |-> 0, elements |-> EmptyStore]
Workers == {1, 2}

Init ==
    /\ elements_db = EmptyStore
    /\ settings_db = <<>>
    /\ render = IdleFrame
    /\ response = NoResponse
    /\ last_op = "init"
    /\ layout_post = IdleLayoutPost
    /\ settings_posts = [w \in Workers |-> IdleSettingsPost]
    /\ seeders = [w \in Workers |-> IdleSeeder]
    /\ jobcard_db = <<>>

Next ==
    \/ FormDesignerViewGet
    \/ SaveTemplateLayoutViewPost(LayoutPosts \cup FailingPosts)
    \/ SettingsViewPost
    \/ JobcardPDFViewGet(Jobcards)
    \/ PreviewPDFTemplateViewGet
    \/ SubmitFormValid(SubmitJobcards)
    \/ TableLoop
    \/ TechNotes
    \/ Signatures
    \/ ManagerNotes
    \/ ManagerSign
    \/ AdminNotes
    \/ Save
    \/ PdfViewRespond
    \/ SubmitViewRespond
    \/ RequestEnd

Spec == Init /\ [][Next]_vars

----------------------------------------------------------------------------
(* SaveTemplateLayoutView.post beside a render: one database statement *)
(* per step; no transaction spans the loop                              *)

\* a layout with two elements moved, as the designer posts it
RacePosts ==
    {<<LayoutItem("header_logo", 40, 25, 150, 80),
       LayoutItem("client_details", 40, 125, 200, 40)>>}

\* the loop moves to the next item, or the view answers
next_item(post, status) ==
    IF status = "success" /\ post.i < Len(post.elements_data)
    THEN [post EXCEPT !.pc = "get_or_create", !.i = post.i + 1]
    ELSE [post EXCEPT !.pc = status]

\* the request arrives: json.loads, data.get('elements', [])
LayoutPostBegin(posts) ==
    /\ layout_post.pc = "idle"
    /\ \E items \in posts :
         layout_post' = [pc |-> "get_or_create", elements_data |-> items,
                         i |-> 1, before |-> elements_db]
    /\ last_op' = "SaveTemplateLayoutView.post"
    /\ UNCHANGED <<elements_db, settings_db, render, response, settings_posts, seeders,
                   jobcard_db>>

\* line 746 for the item at hand: the row is created with the model's
\* field defaults when the name is new; float() of lines 747-750 raises on
\* a coordinate that is not a number
LayoutPostGetOrCreate ==
    /\ layout_post.pc = "get_or_create"
    /\ LET item == layout_post.elements_data[layout_post.i]
       IN  IF item.name = ""
           THEN /\ layout_post' = next_item(layout_post, "success")
                /\ UNCHANGED elements_db
           ELSE /\ elements_db' = get_or_create(elements_db, item.name)
                /\ layout_post' = IF item.numeric
                                  THEN [layout_post EXCEPT !.pc = "save"]
                                  ELSE next_item(layout_post, "error")
    /\ last_op' = "get_or_create"
    /\ UNCHANGED <<settings_db, render, response, settings_posts, seeders,
                   jobcard_db>>

\* line 751: element.save() with the four posted fields
LayoutPostSave ==
    /\ layout_post.pc = "save"
    /\ elements_db' = upsert(elements_db,
                             layout_post.elements_data[layout_post.i])
    /\ layout_post' = next_item(layout_post, "success")
    /\ last_op' = "element.save"
    /\ UNCHANGED <<settings_db, render, response, settings_posts, seeders,
                   jobcard_db>>

\* lines 753-755: the JsonResponse is sent
LayoutPostEnd ==
    /\ layout_post.pc \in {"success", "error"}
    /\ layout_post' = IdleLayoutPost
    /\ last_op' = "JsonResponse"
    /\ UNCHANGED <<elements_db, settings_db, render, response, settings_posts, seeders,
                   jobcard_db>>

NextLayoutRace ==
    \/ FormDesignerViewGet
    \/ LayoutPostBegin(RacePosts)
    \/ LayoutPostGetOrCreate
    \/ LayoutPostSave
    \/ LayoutPostEnd
    \/ JobcardPDFViewGet({FixtureJobcard})
    \/ PreviewPDFTemplateViewGet
    \/ TableLoop
    \/ TechNotes
    \/ Signatures
    \/ ManagerNotes
    \/ ManagerSign
    \/ AdminNotes
    \/ Save
    \/ PdfViewRespond
    \/ RequestEnd

SpecLayoutRace == Init /\ [][NextLayoutRace]_vars

----------------------------------------------------------------------------
(* SettingsView.post by two workers: one database statement per step *)

\* the settings two requests post
RaceRows ==
    {[exists |-> TRUE, company_logo |-> l, watermark |-> "none"] :
        l \in {"none", "ok"}}

\* line 702-703: GlobalSettings.objects.first() and the form bound to it;
\* pk 0 is a new instance
SettingsPostBegin(w, rows) ==
    /\ settings_posts[w].pc = "idle"
    /\ \E row \in rows :
         settings_posts' =
            [settings_posts EXCEPT ![w] =
                [pc |-> "save", instance |-> row,
                 pk |-> IF settings_db = <<>> THEN 0 ELSE 1]]
    /\ last_op' = "SettingsView.post"
    /\ UNCHANGED <<elements_db, settings_db, render, response, layout_post, seeders,
                   jobcard_db>>

\* GlobalSettings.save, lines 50-52: a new instance is dropped when a row
\* exists
SettingsSaveGuard(w) ==
    /\ settings_posts[w].pc = "save"
    /\ settings_posts' =
          [settings_posts EXCEPT ![w].pc =
              IF settings_posts[w].pk = 0 /\ settings_db # <<>>
              THEN "done"
              ELSE "super_save"]
    /\ last_op' = "GlobalSettings.save"
    /\ UNCHANGED <<elements_db, settings_db, render, response, layout_post, seeders,
                   jobcard_db>>

\* GlobalSettings.save, line 53: super().save() inserts a new instance and
\* updates one that has a pk
SettingsSuperSave(w) ==
    /\ settings_posts[w].pc = "super_save"
    /\ settings_db' =
          IF settings_posts[w].pk = 0
          THEN Append(settings_db, settings_posts[w].instance)
          ELSE [settings_db EXCEPT
                   ![settings_posts[w].pk] = settings_posts[w].instance]
    /\ settings_posts' = [settings_posts EXCEPT ![w].pc = "done"]
    /\ last_op' = "super().save"
    /\ UNCHANGED <<elements_db, render, response, layout_post, seeders,
                   jobcard_db>>

\* lines 705-706: the redirect is sent
SettingsPostEnd(w) ==
    /\ settings_posts[w].pc = "done"
    /\ settings_posts' = [settings_posts EXCEPT ![w] = IdleSettingsPost]
    /\ last_op' = "redirect"
    /\ UNCHANGED <<elements_db, settings_db, render, response, layout_post, seeders,
                   jobcard_db>>

NextSettingsRace ==
    \E w \in Workers :
        \/ SettingsPostBegin(w, RaceRows)
        \/ SettingsSaveGuard(w)
        \/ SettingsSuperSave(w)
        \/ SettingsPostEnd(w)

SpecSettingsRace == Init /\ [][NextSettingsRace]_vars

----------------------------------------------------------------------------
(* What a render drew *)

InFlight == render.pc # "idle"

\* the pages opened by the call, with the drawing calls made on each
PagesOf(f) == IF f.buffer.written THEN f.drawn ELSE Pages(f.p)

RECURSIVE Flatten(_)
Flatten(pages) ==
    IF pages = <<>> THEN <<>> ELSE Head(pages) \o Flatten(Tail(pages))

\* the blocks in drawing order, the framework of every page left out
ContentOps(pages) ==
    SelectSeq(Flatten(pages), LAMBDA op : op.blk \notin {"border", "watermark"})

BlockNames(pages) ==
    LET ops == ContentOps(pages) IN [i \in 1..Len(ops) |-> ops[i].blk]

RECURSIVE RowsOf(_)
RowsOf(ops) ==
    IF ops = <<>> THEN <<>> ELSE Head(ops).rows \o RowsOf(Tail(ops))

\* the ids of the table rows drawn, in drawing order across the pages
DrawnRows(f) == RowsOf(Flatten(PagesOf(f)))

Has(f, blk) ==
    LET ops == Flatten(PagesOf(f))
    IN  \E i \in 1..Len(ops) : ops[i].blk = blk

\* position of the first op of a block, 0 when it was not drawn
RECURSIVE IndexOf(_, _)
IndexOf(names, blk) ==
    IF names = <<>> THEN 0
    ELSE IF Head(names) = blk THEN 1
    ELSE LET k == IndexOf(Tail(names), blk) IN IF k = 0 THEN 0 ELSE k + 1

----------------------------------------------------------------------------
(* setup_default_template_elements by two workers: one database statement
   per step *)

\* the callers of setup_default_template_elements
SeedingViews == {"generate_pdf_buffer", "FormDesignerView.get"}

\* a request reaches setup_default_template_elements() (lines 134, 730)
SeedBegin(w) ==
    /\ seeders[w].pc = "idle"
    /\ \E view \in SeedingViews :
         seeders' = [seeders EXCEPT ![w] =
                        [IdleSeeder EXCEPT !.pc = "exists", !.view = view]]
    /\ last_op' = "setup_default_template_elements"
    /\ UNCHANGED <<elements_db, settings_db, render, response, layout_post,
                   settings_posts, jobcard_db>>

\* line 61: `if not PDFTemplateElement.objects.exists()`
SeedExists(w) ==
    /\ seeders[w].pc = "exists"
    /\ seeders' = [seeders EXCEPT ![w] =
                      IF DOMAIN elements_db = {}
                      THEN [@ EXCEPT !.pc = "create", !.i = 1]
                      ELSE [@ EXCEPT !.pc = "all"]]
    /\ last_op' = "exists"
    /\ UNCHANGED <<elements_db, settings_db, render, response, layout_post,
                   settings_posts, jobcard_db>>

\* line 63 for the default at hand: the INSERT; element_name is unique
\* (models.py line 71), so the INSERT of a name that is in the table raises
\* IntegrityError, which nothing in the function handles
SeedCreate(w) ==
    /\ seeders[w].pc = "create"
    /\ LET d == defaults[seeders[w].i]
       IN  IF d.element_name \in DOMAIN elements_db
           THEN /\ seeders' = [seeders EXCEPT ![w].pc = "IntegrityError"]
                /\ UNCHANGED elements_db
           ELSE /\ elements_db' = create(elements_db, d)
                /\ seeders' = [seeders EXCEPT ![w] =
                                  IF @.i < Len(defaults)
                                  THEN [@ EXCEPT !.i = @ + 1]
                                  ELSE [@ EXCEPT !.pc = "all"]]
    /\ last_op' = "create"
    /\ UNCHANGED <<settings_db, render, response, layout_post, settings_posts,
                   jobcard_db>>

\* lines 135, 731: PDFTemplateElement.objects.all(), the set the request
\* draws from
SeedAll(w) ==
    /\ seeders[w].pc = "all"
    /\ seeders' = [seeders EXCEPT ![w] =
                      [@ EXCEPT !.pc = "done", !.elements = elements_db]]
    /\ last_op' = "all"
    /\ UNCHANGED <<elements_db, settings_db, render, response, layout_post,
                   settings_posts, jobcard_db>>

\* the request is over
SeedEnd(w) ==
    /\ seeders[w].pc \in {"done", "IntegrityError"}
    /\ seeders' = [seeders EXCEPT ![w] = IdleSeeder]
    /\ last_op' = "request_end"
    /\ UNCHANGED <<elements_db, settings_db, render, response, layout_post,
                   settings_posts, jobcard_db>>

NextSeedRace ==
    \E w \in Workers :
        \/ SeedBegin(w)
        \/ SeedExists(w)
        \/ SeedCreate(w)
        \/ SeedAll(w)
        \/ SeedEnd(w)

SpecSeedRace == Init /\ [][NextSeedRace]_vars

----------------------------------------------------------------------------
(* The jobcard workflow: create, update, autosave, manager and admin views.
   Each request is one step; the signature images and the fields the
   claims do not speak of are left out of the rows. *)

\* most jobcards in the table
MaxJobcards == 1

User(username, full_name, role) ==
    [username |-> username, full_name |-> full_name, role |-> role,
     is_superuser |-> FALSE]

\* two technicians, a manager and an admin
Users ==
    {User("jdoe", "John Doe", "TECHNICIAN"),
     User("asmith", "Ann Smith", "TECHNICIAN"),
     User("boss", "Boss Man", "MANAGER"),
     User("clerk", "", "ADMIN")}

is_technician(user) == user.role = "TECHNICIAN"
is_manager(user) == user.role = "MANAGER"
is_admin_role(user) == user.role = "ADMIN"

\* the technician a jobcard row refers to
technician_of(user) ==
    [exists |-> TRUE, full_name |-> user.full_name,
     username |-> user.username]

\* JobcardForm.clean(): a submit needs a company or a client name
JobcardForm_is_valid(data) ==
    ~(data.action = "submit" /\ ~data.company.exists /\ data.client_name = "")

\* form.save(commit=False) of JobcardForm: the posted fields are set on the
\* instance, the status among them; manager_notes and admin_notes are
\* disabled for a technician and empty in the post of any other user
JobcardForm_save(instance, data, user) ==
    [instance EXCEPT
        !.company = data.company, !.status = data.status,
        !.client_name = data.client_name, !.tech_notes = data.tech_notes,
        !.manager_notes = IF is_technician(user) THEN @ ELSE 0,
        !.admin_notes = IF is_technician(user) THEN @ ELSE 0]

\* self.object.save(): INSERT when the object has no pk (pk 0), else UPDATE
save_jobcard(db, pk, object) ==
    IF pk = 0 THEN Append(db, object) ELSE [db EXCEPT ![pk] = object]

Answer(view, status, message) ==
    [NoResponse EXCEPT !.view = view, !.status = status, !.message = message]

\* what a handler leaves: the jobcard table, the element store, the answer
Outcome(db, elements, answer) ==
    [db |-> db, elements |-> elements, response |-> answer]

\* lines 467-497 and 536-565: status SUBMITTED on action 'submit', then
\* self.object.save(), and only then items.is_valid(): with valid items
\* they are saved and a submitted jobcard is rendered and mailed; with
\* invalid items the form is shown again
form_valid(view, db, elements, settings, pk, instance, data, ok_message) ==
    LET object == [instance EXCEPT
                      !.status = IF data.action = "submit"
                                 THEN "SUBMITTED" ELSE @]
        saved == save_jobcard(db, pk, object)
        at == IF pk = 0 THEN Len(saved) ELSE pk
        with_items == [saved EXCEPT ![at].items = data.items]
    IN  IF data.items_valid
        THEN IF data.action = "submit"
             THEN Outcome(with_items,
                          setup_default_template_elements(elements),
                          submit_response(
                              [generate_pdf_buffer(elements, settings, FALSE,
                                                   with_items[at])
                                  EXCEPT !.view = view]))
             ELSE Outcome(with_items, elements, Answer(view, 302, ok_message))
        ELSE Outcome(saved, elements, Answer(view, 200, "items invalid"))

\* JobcardCreateView.post: test_func, form validation, form_valid with the
\* requesting user as the technician
create_view_post(db, elements, settings, user, data) ==
    LET view == "JobcardCreateView"
    IN  IF ~(is_technician(user) \/ user.is_superuser)
        THEN Outcome(db, elements, Answer(view, 403, ""))
        ELSE IF ~JobcardForm_is_valid(data)
        THEN Outcome(db, elements, Answer(view, 200, "form invalid"))
        ELSE form_valid(view, db, elements, settings, 0,
                        [JobcardForm_save(NoJobcard, data, user) EXCEPT
                            !.technician = technician_of(user)],
                        data, "Jobcard draft saved!")

\* JobcardUpdateView.post: test_func lets only the jobcard's technician in,
\* and only while it is a DRAFT
update_view_post(db, elements, settings, user, pk, data) ==
    LET view == "JobcardUpdateView"
        obj == db[pk]
    IN  IF ~(is_technician(user) /\ obj.technician = technician_of(user)
                               /\ obj.status = "DRAFT")
        THEN Outcome(db, elements, Answer(view, 403, ""))
        ELSE IF ~JobcardForm_is_valid(data)
        THEN Outcome(db, elements, Answer(view, 200, "form invalid"))
        ELSE form_valid(view, db, elements, settings, pk,
                        JobcardForm_save(obj, data, user),
                        data, "Jobcard updated successfully!")

\* JobcardAutosaveView.post: `request.request.user` raises AttributeError
\* for a user who is not the jobcard's technician; for the technician the
\* posted form is saved whatever the status of the jobcard, and the items
\* when they are valid
autosave_view_post(db, elements, user, pk, data) ==
    LET view == "JobcardAutosaveView"
        jobcard == db[pk]
        saved == save_jobcard(db, pk, JobcardForm_save(jobcard, data, user))
    IN  IF jobcard.technician # technician_of(user)
        THEN Outcome(db, elements, Answer(view, 500, "AttributeError"))
        ELSE IF ~JobcardForm_is_valid(data)
        THEN Outcome(db, elements, Answer(view, 400, "error"))
        ELSE Outcome(IF data.items_valid
                     THEN [saved EXCEPT ![pk].items = data.items]
                     ELSE saved,
                     elements, Answer(view, 200, "saved"))

\* ManagerJobcardView.post: the posted status and notes are saved, status
\* APPROVED when the post holds 'approve'
manager_view_post(db, elements, user, pk, data) ==
    LET view == "ManagerJobcardView"
    IN  IF ~(is_manager(user) \/ user.is_superuser)
        THEN Outcome(db, elements, Answer(view, 403, ""))
        ELSE Outcome([db EXCEPT ![pk] =
                        [@ EXCEPT !.manager_notes = data.manager_notes,
                                  !.status = IF data.approve
                                             THEN "APPROVED"
                                             ELSE data.status]],
                     elements,
                     Answer(view, 302, "Jobcard reviewed successfully!"))

\* AdminJobcardView.post: the posted notes are saved, status INVOICED
admin_view_post(db, elements, user, pk, data) ==
    LET view == "AdminJobcardView"
    IN  IF ~(is_admin_role(user) \/ user.is_superuser)
        THEN Outcome(db, elements, Answer(view, 403, ""))
        ELSE Outcome([db EXCEPT ![pk] =
                        [@ EXCEPT !.admin_notes = data.admin_notes,
                                  !.status = "INVOICED"]],
                     elements,
                     Answer(view, 302, "Jobcard marked as Invoiced!"))

\* what a technician's form posts: with invalid items none is saved
JobcardPosts ==
    {[company |-> k, status |-> s, client_name |-> "", tech_notes |-> n,
      action |-> a, items |-> i, items_valid |-> v] :
        k \in Companies, s \in Statuses, n \in {0, 1},
        a \in {"draft", "submit"}, i \in {<<>>, <<RowHeight>>},
        v \in BOOLEAN}

ManagerPosts ==
    {[status |-> s, manager_notes |-> 1, approve |-> a] :
        s \in Statuses, a \in BOOLEAN}

AdminPosts == {[status |-> s, admin_notes |-> 1] : s \in Statuses}

\* the pks of the table
Pks == 1..Len(jobcard_db)

\* a request handled in one step
Handled(view, outcome) ==
    /\ jobcard_db' = outcome.db
    /\ elements_db' = outcome.elements
    /\ response' = outcome.response
    /\ last_op' = view
    /\ UNCHANGED <<settings_db, render, layout_post, settings_posts, seeders>>

JobcardCreateViewPost ==
    /\ Len(jobcard_db) < MaxJobcards
    /\ \E user \in Users : \E data \in JobcardPosts :
         Handled("JobcardCreateView",
                 create_view_post(jobcard_db, elements_db, settings_db,
                                  user, data))

JobcardUpdateViewPost ==
    \E user \in Users : \E pk \in Pks : \E data \in JobcardPosts :
        Handled("JobcardUpdateView",
                update_view_post(jobcard_db, elements_db, settings_db,
                                 user, pk, data))

JobcardAutosaveViewPost ==
    \E user \in Users : \E pk \in Pks : \E data \in JobcardPosts :
        Handled("JobcardAutosaveView",
                autosave_view_post(jobcard_db, elements_db, user, pk, data))

ManagerJobcardViewPost ==
    \E user \in Users : \E pk \in Pks : \E data \in ManagerPosts :
        Handled("ManagerJobcardView",
                manager_view_post(jobcard_db, elements_db, user, pk, data))

AdminJobcardViewPost ==
    \E user \in Users : \E pk \in Pks : \E data \in AdminPosts :
        Handled("AdminJobcardView",
                admin_view_post(jobcard_db, elements_db, user, pk, data))

NextWorkflow ==
    \/ JobcardCreateViewPost
    \/ JobcardUpdateViewPost
    \/ JobcardAutosaveViewPost
    \/ ManagerJobcardViewPost
    \/ AdminJobcardViewPost

SpecWorkflow == Init /\ [][NextWorkflow]_vars

----------------------------------------------------------------------------
(* C1 *)

CallsSetup == last_op \in {"FormDesignerView.get", "generate_pdf_buffer"}

SeededStore ==
    /\ DOMAIN elements_db = ELEMENT_CHOICES
    /\ Cardinality(DOMAIN elements_db) = 9
    /\ \A i \in 1..Len(defaults) :
          elements_db[defaults[i].element_name] = defaults[i].geom

\* C1: a call of setup_default_template_elements on the empty store leaves
\* exactly the nine fixed names, each with the geometry of the defaults
\* list; a call on any other store leaves the store as it was.
C1_EnsureDefaults ==
    [][CallsSetup' =>
         /\ (elements_db = EmptyStore => SeededStore')
         /\ (elements_db # EmptyStore => elements_db' = elements_db)]_vars

\* the designer page was opened on a seeded store: a later call
C1_Witness ==
    /\ last_op = "FormDesignerView.get"
    /\ SeededStore
    /\ settings_db # <<>>

----------------------------------------------------------------------------
(* C2 *)

\* C2: the snapshot a render works from holds every fixed element name.
C2_SnapshotHasFixedNames ==
    InFlight => ELEMENT_CHOICES \subseteq DOMAIN render.elements

----------------------------------------------------------------------------
(* C3 *)

\* the table has been drawn to its end
TableDone(f) ==
    /\ f.pc \in {"tech_notes", "signatures", "manager_notes", "manager_sign",
                 "admin_notes", "save", "returned"}
    /\ "items_table" \in DOMAIN f.elements

AllRows(f) == RowIds(table_data(f.is_dummy, f.jobcard))

IsPrefix(a, b) == Len(a) <= Len(b) /\ a = SubSeq(b, 1, Len(a))

\* the table as a whole does not fit the space left on page 1
OverflowsPage1(f) ==
    wrap_height(table_data(f.is_dummy, f.jobcard)) >
        get_rl_y(f.elements["items_table"].pos_y) - Margin

----------------------------------------------------------------------------
(* C4 *)

\* C4: the table loop never raises.
C4_TableLoopNeverRaises == render.exc # "IndexError"

----------------------------------------------------------------------------
(* C5 *)

DocOps(f) == [i \in 1..Len(f.buffer.pages) |-> f.buffer.pages[i].ops]

\* C5: the returned document holds exactly the pages opened during the
\* render, in order, the last one included.
C5_DocumentHasEveryPage ==
    render.pc = "returned" => DocOps(render) = render.drawn

----------------------------------------------------------------------------
(* C6 *)

\* C6: every page opened carries the footer "Page i of N", N the number
\* of pages opened and i the page's position.
C6_FootersCountEveryPage ==
    render.pc = "returned" =>
      /\ Len(render.buffer.pages) = Len(render.drawn)
      /\ \A i \in 1..Len(render.buffer.pages) :
            render.buffer.pages[i].footer = <<i, Len(render.drawn)>>

----------------------------------------------------------------------------
(* C7 *)

\* the status of the record rendered; the preview fixture is rendered as
\* an invoiced record
RecordStatus(f) == IF f.is_dummy THEN "INVOICED" ELSE f.jobcard.status

Before(f, a, b) ==
    LET names == BlockNames(PagesOf(f))
    IN  IndexOf(names, b) # 0 =>
          IndexOf(names, a) # 0 /\ IndexOf(names, a) < IndexOf(names, b)

\* C7: a manager block is drawn only for status APPROVED or INVOICED, the
\* admin notes only for INVOICED, and none of them before the technician
\* notes and the technician/client signatures; a render that returns has
\* drawn the technician block, the manager block for exactly those
\* statuses and the admin notes for exactly INVOICED.
C7_ConditionalSections ==
    InFlight =>
      /\ Has(render, "manager_notes") \/ Has(render, "manager_sign")
            => RecordStatus(render) \in {"APPROVED", "INVOICED"}
      /\ Has(render, "admin_notes") => RecordStatus(render) = "INVOICED"
      /\ Before(render, "tech_notes", "tech_client_sign")
      /\ Before(render, "tech_client_boxes", "manager_notes")
      /\ Before(render, "manager_notes", "manager_sign")
      /\ Before(render, "tech_client_boxes", "admin_notes")
      /\ render.pc = "returned" =>
           /\ Has(render, "tech_notes") /\ Has(render, "tech_client_boxes")
           /\ RecordStatus(render) \in {"APPROVED", "INVOICED"}
                 => Has(render, "manager_notes") /\ Has(render, "manager_box")
           /\ RecordStatus(render) = "INVOICED" => Has(render, "admin_notes")
           /\ RecordStatus(render) = "APPROVED"
                 => Before(render, "manager_box", "admin_notes")

\* an approved record: the manager block and no admin notes
C7_Witness ==
    /\ render.pc = "returned"
    /\ ~render.is_dummy
    /\ render.jobcard.status = "APPROVED"
    /\ Has(render, "manager_sign")
    /\ ~Has(render, "admin_notes")

----------------------------------------------------------------------------
(* C8 *)

\* the same call in Bound mode on a record holding the fixture's values
BoundTwin(f) ==
    generate_pdf_buffer(f.elements, settings_db, FALSE, FixtureJobcard)

SameBlocksAndPages(f, g) ==
    /\ g.pc = f.pc
    /\ BlockNames(PagesOf(g)) = BlockNames(PagesOf(f))
    /\ Len(PagesOf(g)) = Len(PagesOf(f))
    /\ Len(g.buffer.pages) = Len(f.buffer.pages)

\* C8: a Preview render and a Bound render of a record with the fixture's
\* values draw the same sequence of blocks on the same number of pages.
C8_ModeParity ==
    (render.pc = "returned" /\ render.is_dummy)
        => SameBlocksAndPages(render, BoundTwin(render))

----------------------------------------------------------------------------
(* C9 *)

\* the settings table with the logo file removed
WithoutLogo(db) ==
    [i \in 1..Len(db) |-> [db[i] EXCEPT !.company_logo = "none"]]

SigFields == {"tech_signature", "client_signature", "manager_signature"}

\* the same call with the signature field `a` empty
WithoutSignature(f, a) ==
    generate_pdf_buffer(f.elements, settings_db, f.is_dummy,
                        [f.jobcard EXCEPT ![a] = "none"])

\* C9: a render with an image that cannot be loaded ends as the same
\* render with that image absent does: with a document, the same sequence
\* of blocks and the same number of pages.
C9_ImageFailureLikeAbsence ==
    render.pc \in {"returned", "raised"} =>
      /\ render.settings_obj.company_logo = "bad" =>
            SameBlocksAndPages(render,
                generate_pdf_buffer(render.elements, WithoutLogo(settings_db),
                                    render.is_dummy, render.jobcard))
      /\ \A a \in SigFields :
            (~render.is_dummy /\ render.jobcard[a] = "bad") =>
                SameBlocksAndPages(render, WithoutSignature(render, a))

----------------------------------------------------------------------------
(* C10 *)

----------------------------------------------------------------------------
(* C11 *)

\* the drawing calls of a block, in drawing order
OpsOf(f, blk) ==
    SelectSeq(Flatten(PagesOf(f)), LAMBDA op : op.blk = blk)

\* a Bound render whose snapshot holds the client details element
BoundClientDetails ==
    InFlight /\ ~render.is_dummy /\ "client_details" \in DOMAIN render.elements

\* C11: in a Bound render the client line shows the record's client name
\* when it is set, else the name of its company, else "N/A"; the render
\* does not fail on a record that has neither.
C11_ClientNameFallback ==
    BoundClientDetails =>
      /\ render.exc # "AttributeError"
      /\ Len(OpsOf(render, "client_details")) = 1
      /\ OpsOf(render, "client_details")[1].arg[1] =
            IF render.jobcard.client_name # "" THEN render.jobcard.client_name
            ELSE IF render.jobcard.company.exists
                 THEN render.jobcard.company.name
                 ELSE "N/A"

----------------------------------------------------------------------------
(* C12 *)

\* the header elements drawn as text, and the drawing calls of the logo box
TextElements ==
    {"company_info", "jobcard_meta", "client_details", "start_stop_times"}
LogoBlocks == {"logo_image", "logo_placeholder"}

\* C12: every header block is drawn where the conversion of its element's
\* pos_y puts it: the bottom edge y of the logo box (image or placeholder)
\* satisfies y + height = page height - pos_y, and the first baseline of a
\* text element is at page height - pos_y - font_size.
C12_CoordinateConversion ==
    InFlight =>
      LET ops == Flatten(PagesOf(render))
      IN  \A i \in 1..Len(ops) :
            /\ ops[i].blk \in LogoBlocks =>
                 ops[i].y + render.elements["header_logo"].height
                    = PageHeight - render.elements["header_logo"].pos_y
            /\ ops[i].blk \in TextElements =>
                 ops[i].y = PageHeight - render.elements[ops[i].blk].pos_y
                                       - render.elements[ops[i].blk].font_size

\* the logo image and the client details drawn at the places the designer
\* dragged them to
C12_Witness ==
    /\ render.pc = "returned"
    /\ ELEMENT_CHOICES \subseteq DOMAIN render.elements
    /\ render.elements["header_logo"].pos_y = 25
    /\ render.elements["client_details"].pos_y = 125
    /\ Len(OpsOf(render, "logo_image")) = 1
    /\ OpsOf(render, "logo_image")[1].y = 737
    /\ Len(OpsOf(render, "client_details")) = 1
    /\ OpsOf(render, "client_details")[1].y = 707

----------------------------------------------------------------------------
(* C13 *)

Count(page, blk) == Len(SelectSeq(page, LAMBDA op : op.blk = blk))

\* the watermark image can be drawn
WatermarkLoads(f) ==
    f.settings_obj.exists /\ f.settings_obj.company_logo = "ok"

\* C13: on every page a render has opened, the framework was drawn once
\* and before anything else: the border is the first drawing call of the
\* page and the only border on it, and the watermark, when its image
\* loads, is the second call and the only watermark on it.
C13_FrameworkOncePerPage ==
    InFlight =>
      \A i \in 1..Len(PagesOf(render)) :
        LET page == PagesOf(render)[i]
        IN  /\ Len(page) >= 1
            /\ page[1].blk = "border"
            /\ Count(page, "border") = 1
            /\ IF WatermarkLoads(render)
               THEN /\ Len(page) >= 2
                    /\ page[2].blk = "watermark"
                    /\ Count(page, "watermark") = 1
               ELSE Count(page, "watermark") = 0

\* three pages: the second opened by the table split, the third by the
\* check before a body block, the watermark on each
C13_Witness ==
    /\ render.pc = "returned"
    /\ WatermarkLoads(render)
    /\ Len(render.drawn) = 3
    /\ Count(render.drawn[2], "items_table") = 1
    /\ Count(render.drawn[3], "items_table") = 0
    /\ Count(render.drawn[3], "watermark") = 1

----------------------------------------------------------------------------
(* C14 *)

\* the content-flow cursor of a call
CursorOf(f) ==
    <<f.table_start_y, f.avail_height, f.current_y_position, f.y_offset>>

\* a call run up to the statement `pc` with `n` rows of the table left
RECURSIVE run_to(_, _, _)
run_to(f, pc, n) ==
    IF f.pc \in {"returned", "raised"} \/ (f.pc = pc /\ Len(f.table) = n)
    THEN f
    ELSE run_to(step(f), pc, n)

\* the same call, as far as f has come, with no branding settings: every
\* framework draws the border only
PlainTwin(f) ==
    run_to(generate_start(f.elements, <<>>, f.view, f.is_dummy, f.jobcard),
           f.pc, Len(f.table))

\* C14: the framework leaves the content-flow cursor alone, whether or not
\* it draws a watermark: at every statement of a render, table_start_y,
\* avail_height, current_y_position and y_offset, and the number of pages
\* opened, are those of the same render whose frameworks draw no watermark.
C14_FrameworkKeepsCursor ==
    (InFlight /\ render.pc # "responded") =>
      /\ PlainTwin(render).pc = render.pc
      /\ CursorOf(PlainTwin(render)) = CursorOf(render)
      /\ Len(PagesOf(PlainTwin(render))) = Len(PagesOf(render))

\* a watermark drawn on a page opened by the check before a body block
C14_Witness ==
    /\ render.pc = "save"
    /\ WatermarkLoads(render)
    /\ Len(Pages(render.p)) >= 2
    /\ Count(Pages(render.p)[Len(Pages(render.p))], "items_table") = 0
    /\ Count(Pages(render.p)[Len(Pages(render.p))], "watermark") = 1

----------------------------------------------------------------------------
(* C15 *)

\* the store a layout post leaves when nothing else runs beside it
AfterPost(post) == save_layout(post.before, post.elements_data).db

\* C15: a render that reads its snapshot while a layout save is running
\* works from the layout as it was before the save or as it is after it.
C15_ConsistentSnapshot ==
    (last_op = "generate_pdf_buffer" /\ layout_post.pc # "idle") =>
        render.elements \in
            {setup_default_template_elements(layout_post.before),
             setup_default_template_elements(AfterPost(layout_post))}

----------------------------------------------------------------------------
(* C16 *)

\* the settings field the watermark is to be taken from: the watermark
\* asset when one is set, else the logo, else none
WatermarkField(settings_obj) ==
    IF settings_obj.exists /\ settings_obj.watermark # "none"
    THEN "watermark"
    ELSE IF settings_obj.exists /\ settings_obj.company_logo # "none"
    THEN "company_logo"
    ELSE "none"

\* C16: on every page the watermark drawn is the settings' watermark asset
\* when one is set and the company logo only when none is set; no
\* watermark is drawn when neither is set.
C16_WatermarkResolution ==
    InFlight =>
      \A i \in 1..Len(PagesOf(render)) :
        LET page == PagesOf(render)[i]
            field == WatermarkField(render.settings_obj)
            marks == SelectSeq(page, LAMBDA op : op.blk = "watermark")
        IN  /\ field = "none" => Len(marks) = 0
            /\ (field # "none" /\ render.settings_obj[field] = "ok") =>
                   /\ Len(marks) = 1
                   /\ marks[1].arg = <<field>>

----------------------------------------------------------------------------
(* C17 *)

\* C17: in a Bound render the technician line shows the technician's full
\* name when it is not empty and the username when it is.
C17_TechnicianNameFallback ==
    (BoundClientDetails /\ render.jobcard.technician.exists
        /\ Len(OpsOf(render, "client_details")) = 1) =>
      OpsOf(render, "client_details")[1].arg[2] =
        IF render.jobcard.technician.full_name # ""
        THEN render.jobcard.technician.full_name
        ELSE render.jobcard.technician.username

----------------------------------------------------------------------------
(* C18 *)

\* C18: at most one GlobalSettings row exists.
C18_SingleSettingsRow == Len(settings_db) <= 1

----------------------------------------------------------------------------
(* C19 *)

Names(items) == {items[i].name : i \in 1..Len(items)}

\* the last item posted under a name
LastNamed(items, n) ==
    items[CHOOSE i \in 1..Len(items) :
            /\ items[i].name = n
            /\ \A j \in (i + 1)..Len(items) : items[j].name # n]

\* `new` is `old` after the upsert of every item: a name that was absent
\* is there, every posted name has the x, y, width and height posted last
\* under it, and nothing else differs
UpsertedBy(old, new, items) ==
    /\ DOMAIN new = DOMAIN old \cup Names(items)
    /\ \A n \in DOMAIN new :
         IF n \in Names(items)
         THEN LET item == LastNamed(items, n)
              IN  /\ new[n].pos_x = item.x
                  /\ new[n].pos_y = item.y
                  /\ new[n].width = item.width
                  /\ new[n].height = item.height
                  /\ n \in DOMAIN old => new[n].font_size = old[n].font_size
         ELSE new[n] = old[n]

\* the snapshot without the elements whose name is outside the fixed set
FixedOnly(elements) ==
    [n \in (DOMAIN elements) \cap ELEMENT_CHOICES |-> elements[n]]

\* the same call on the snapshot without those elements
FixedOnlyTwin(f) ==
    run(generate_start(FixedOnly(f.elements), settings_db, f.view,
                       f.is_dummy, f.jobcard))

\* a finished render whose snapshot holds the nine fixed names draws what
\* it would draw without the other names
Inert ==
    (render.pc \in {"returned", "raised"}
        /\ ELEMENT_CHOICES \subseteq DOMAIN render.elements) =>
      /\ FixedOnlyTwin(render).pc = render.pc
      /\ PagesOf(FixedOnlyTwin(render)) = PagesOf(render)
      /\ FixedOnlyTwin(render).buffer = render.buffer

\* C19: a layout post on any store the program reaches succeeds and leaves
\* every posted name in the store, created when it was absent, with the
\* x, y, width and height posted under it, names outside the fixed set
\* included, and leaves the other elements as they were; and with the nine
\* fixed elements present, the elements under other names change nothing
\* in what a render draws, where, and on how many pages.
C19_UpsertAndInertNames ==
    /\ Idle =>
         \A items \in LayoutPosts :
            /\ save_layout(elements_db, items).status = "success"
            /\ UpsertedBy(elements_db, save_layout(elements_db, items).db, items)
    /\ Inert

\* a render on two pages from a snapshot that holds the nine fixed names
\* and a block under another name, moved after it was stored
C19_Witness ==
    /\ render.pc = "returned"
    /\ ELEMENT_CHOICES \subseteq DOMAIN render.elements
    /\ "custom_block" \in DOMAIN render.elements
    /\ render.elements["custom_block"].pos_y = 650
    /\ Len(render.drawn) = 2

----------------------------------------------------------------------------
(* C20 *)

\* the statements at which a flowing body block starts
BodyBlocks ==
    {"tech_notes", "signatures", "manager_notes", "manager_sign", "admin_notes"}

\* the height the block asks check_page_break for
Required(pc) ==
    CASE pc = "tech_notes"    -> 120
      [] pc = "signatures"    -> 80
      [] pc = "manager_notes" -> 100
      [] pc = "manager_sign"  -> 80
      [] pc = "admin_notes"   -> 50

\* the first drawing call of the block
FirstCall(pc) == IF pc = "signatures" THEN "tech_client_sign" ELSE pc

\* the cursor the block hands to the check: the signature blocks first
\* leave the gap of 20 under the notes above them
CursorAtCheck(f) ==
    IF f.pc \in {"signatures", "manager_sign"} THEN f.y_offset - 20
    ELSE f.y_offset

\* C20: at the start of every flowing body block, with r the height the
\* block asks for: if cursor - r < 40 the block opens one new page and
\* starts at page height - 40 on it, otherwise it opens no page and starts
\* at the cursor; in both cases the place it starts at is at least r above
\* the bottom margin of 40.
C20_PageBreakCheck ==
    render.pc \in BodyBlocks =>
      LET g == step(render)
          r == Required(render.pc)
          y == CursorAtCheck(render)
          first == OpsOf(g, FirstCall(render.pc))
          last_page == Pages(g.p)[Len(Pages(g.p))]
      IN  /\ Len(first) = 1
          /\ IF y - r < 40
             THEN /\ Len(Pages(g.p)) = Len(Pages(render.p)) + 1
                  /\ first[1].y = PageHeight - 40
                  /\ Count(last_page, FirstCall(render.pc)) = 1
             ELSE /\ Len(Pages(g.p)) = Len(Pages(render.p))
                  /\ first[1].y = y
          /\ first[1].y - r >= 40

\* the technician notes ran down the page and the signatures were moved
\* to the top of a new one
C20_Witness ==
    /\ render.pc = "returned"
    /\ Len(render.drawn) >= 2
    /\ Len(OpsOf(render, "tech_notes")) = 1
    /\ OpsOf(render, "tech_notes")[1].y < PageHeight - 40
    /\ Len(OpsOf(render, "tech_client_sign")) = 1
    /\ OpsOf(render, "tech_client_sign")[1].y = PageHeight - 40
    /\ Count(render.drawn[1], "tech_client_sign") = 0

----------------------------------------------------------------------------
(* C21 *)

\* the drawing calls of the flowing body blocks below the table
BodyCalls ==
    {"tech_notes", "tech_notes_lines", "tech_client_sign",
     "tech_client_boxes", "tech_signature_image", "client_signature_image",
     "manager_notes", "manager_notes_lines", "manager_sign", "manager_box",
     "manager_signature_image", "admin_notes", "admin_notes_lines"}

\* C21: every line and box of a flowing body block is drawn inside the
\* page margins: from its first to its lowest y, 40 <= y <= page height - 40.
C21_BodyInsideMargins ==
    InFlight =>
      LET ops == Flatten(PagesOf(render))
      IN  \A i \in 1..Len(ops) :
            ops[i].blk \in BodyCalls =>
               /\ 40 <= ops[i].ymin
               /\ ops[i].y <= PageHeight - 40

----------------------------------------------------------------------------
(* C22 *)

\* the statuses a printed status text stands for: the stored value itself
\* or the value the text is the label of
StatusesOf(text) ==
    {Status[i] : i \in {j \in 1..Len(Status) :
                           text \in {Status[j], StatusLabel[Status[j]]}}}

\* C22: within one render, in Bound and in Preview mode, the status printed
\* in the header is the status that decides whether the manager and admin
\* blocks are included: a finished render has the manager block iff the
\* printed status is APPROVED or INVOICED and the admin block iff it is
\* INVOICED.
C22_HeaderStatusIsSectionStatus ==
    render.pc = "returned" =>
      LET meta == OpsOf(render, "jobcard_meta")
      IN  \A i \in 1..Len(meta) :
            /\ StatusesOf(meta[i].arg[1]) = {render.status}
            /\ Has(render, "manager_notes")
                  <=> StatusesOf(meta[i].arg[1]) \subseteq {"APPROVED", "INVOICED"}
            /\ Has(render, "admin_notes")
                  <=> StatusesOf(meta[i].arg[1]) = {"INVOICED"}

----------------------------------------------------------------------------
(* C23 *)

\* the graphics state of a canvas: fill opacity (percent) and the depth of
\* the saveState stack
GraphicsState(p) == <<p.fill_alpha, p.state_stack>>

\* C23: draw_page_framework leaves the graphics state as it found it on every
\* path: the canvas of a render in progress, whose page was opened by a
\* framework call, has the fill opacity and the saveState depth of a fresh
\* page, and the framework call of the next page break returns the state it
\* was given.
C23_FrameworkKeepsGraphicsState ==
    InFlight /\ ~render.buffer.written /\ render.pc # "raised" =>
      /\ GraphicsState(render.p) = GraphicsState(NewCanvas)
      /\ LET before == showPage(render.p)
         IN  GraphicsState(draw_page_framework(before, render.settings_obj))
               = GraphicsState(before)

----------------------------------------------------------------------------
(* C25 *)

\* C25: a layout save request is all-or-nothing: a request that is answered
\* with status 'error' has created or changed no template element.
C25_ErrorLeavesStore ==
    [][(last_op' = "SaveTemplateLayoutView.post" /\ response'.message = "error")
          => elements_db' = elements_db]_vars

----------------------------------------------------------------------------
(* C24 *)

\* C24: of the requests that call setup_default_template_elements
\* concurrently on an empty store none ends in an error, none reads a
\* partly seeded set, and a store on which no seeding is under way is empty
\* or holds exactly the nine fixed elements.
C24_ConcurrentSeeding ==
    /\ \A w \in Workers :
         /\ seeders[w].pc # "IntegrityError"
         /\ seeders[w].pc = "done"
               => DOMAIN seeders[w].elements = ELEMENT_CHOICES
    /\ (\A w \in Workers : seeders[w].pc # "create")
         => DOMAIN elements_db \in {{}, ELEMENT_CHOICES}

----------------------------------------------------------------------------
(* C26 *)

\* the place of a status in DRAFT -> SUBMITTED -> APPROVED -> INVOICED
StatusRank(s) == CHOOSE i \in 1..Len(Status) : Status[i] = s

\* C26: over create, update, autosave, manager and admin requests a
\* jobcard's status only moves forward one step at a time: a new jobcard is
\* a DRAFT or, submitted at once, SUBMITTED; a request leaves the status of
\* a stored jobcard where it was or moves it to the next one.
C26_StatusMovesForward ==
    [][\A pk \in 1..Len(jobcard_db') :
          IF pk \in Pks
          THEN StatusRank(jobcard_db'[pk].status)
                 - StatusRank(jobcard_db[pk].status) \in {0, 1}
          ELSE jobcard_db'[pk].status \in {"DRAFT", "SUBMITTED"}]_vars

----------------------------------------------------------------------------
(* C27 *)

\* the views a technician changes a jobcard through
TechnicianViews == {"JobcardUpdateView", "JobcardAutosaveView"}

\* C27: the update view and the autosave view leave a jobcard that has left
\* DRAFT, and its line items, unchanged.
C27_TechnicianLockedOut ==
    [][last_op' \in TechnicianViews =>
          \A pk \in Pks :
             jobcard_db[pk].status # "DRAFT"
                => jobcard_db'[pk] = jobcard_db[pk]]_vars

----------------------------------------------------------------------------
(* C28 *)

\* the posts with action 'submit' whose line items do not validate
InvalidItemSubmits ==
    {data \in JobcardPosts : data.action = "submit" /\ ~data.items_valid}

\* C28: a create or update request with action 'submit' whose items are
\* invalid changes nothing in the table: no jobcard is created and a stored
\* jobcard keeps its status and fields.
C28_InvalidItemsChangeNothing ==
    \A user \in Users : \A data \in InvalidItemSubmits :
       /\ create_view_post(jobcard_db, elements_db, settings_db,
                           user, data).db = jobcard_db
       /\ \A pk \in Pks :
            update_view_post(jobcard_db, elements_db, settings_db,
                             user, pk, data).db = jobcard_db

====
